---- MODULE Spec2Model ----
(***************************************************************************)
(* Model of litex_boards/platforms/ocp_tap_timecard.py: the OCP-TAP        *)
(* TimeCard platform descriptor (IO table, toolchain command lists,        *)
(* programmer selection, finalize step) and the execution of its command   *)
(* lists by the toolchain.                                                 *)
(***************************************************************************)
EXTENDS Integers, Sequences, FiniteSets, TLC

(***************************************************************************)
(* Constraint constructors (litex.build.generic_platform), as used by _io. *)
(* A pin string "M22 N22" is the sequence of its identifiers.              *)
(***************************************************************************)

\* No IOStandard(...) among an entry's or sub-signal's constraints.
None == "<no IOStandard>"

\* Subsignal(name, Pins(...), [IOStandard(...)], [Misc(...)])
Subsignal(n, pins, std, misc) ==
    [name |-> n, pins |-> pins, iostandard |-> std, misc |-> misc]

\* (name, index, Pins(...), IOStandard(...)) : an entry binding pins directly
PinEntry(n, i, pins, std) ==
    [name |-> n, index |-> i, pins |-> pins, iostandard |-> std, subsignals |-> <<>>]

\* (name, index, Subsignal(...), ..., [IOStandard(...)]) : a composite entry
GroupEntry(n, i, subs, std) ==
    [name |-> n, index |-> i, pins |-> <<>>, iostandard |-> std, subsignals |-> subs]

(***************************************************************************)
(* The IO table, section by section, in source order.                      *)
(***************************************************************************)

io_clk_rst ==
    << GroupEntry("clk125", 0,
         << Subsignal("p", <<"F6">>, "DIFF_SSTL15", {}),
            Subsignal("n", <<"E6">>, "DIFF_SSTL15", {}) >>, None),
       GroupEntry("clk200", 0,
         << Subsignal("p", <<"R4">>, "DIFF_SSTL15", {}),
            Subsignal("n", <<"T4">>, "DIFF_SSTL15", {}) >>, None),
       PinEntry("rst_n", 0, <<"T6">>, "LVCMOS15") >>

io_user_led ==
    << PinEntry("user_led", 0, <<"B13">>, "LVCMOS33"),
       PinEntry("user_led", 1, <<"C13">>, "LVCMOS33"),
       PinEntry("user_led", 2, <<"D14">>, "LVCMOS33"),
       PinEntry("user_led", 3, <<"D15">>, "LVCMOS33") >>

io_user_btn ==
    << PinEntry("user_btn", 0, <<"J21">>, "LVCMOS33"),
       PinEntry("user_btn", 1, <<"E13">>, "LVCMOS33") >>

io_flash ==
    << PinEntry("flash_cs_n", 0, <<"T19">>, "LVCMOS33"),
       GroupEntry("flash", 0,
         << Subsignal("mosi", <<"P22">>, None, {}),
            Subsignal("miso", <<"R22">>, None, {}),
            Subsignal("wp",   <<"P21">>, None, {}),
            Subsignal("hold", <<"R21">>, None, {}) >>, "LVCMOS33") >>

io_pcie ==
    << GroupEntry("pcie_x1", 0,
         << Subsignal("rst_n", <<"J20">>, "LVCMOS33", {"PULLUP=TRUE"}),
            Subsignal("clk_p", <<"F10">>, None, {}),
            Subsignal("clk_n", <<"E10">>, None, {}),
            Subsignal("rx_p",  <<"D11">>, None, {}),
            Subsignal("rx_n",  <<"C11">>, None, {}),
            Subsignal("tx_p",  <<"D5">>,  None, {}),
            Subsignal("tx_n",  <<"C5">>,  None, {}) >>, None) >>

io_led ==
    << PinEntry("led", 0, <<"E21">>, "LVCMOS33"),
       PinEntry("led", 1, <<"D21">>, "LVCMOS33"),
       PinEntry("led", 2, <<"E22">>, "LVCMOS33"),
       PinEntry("led", 3, <<"D22">>, "LVCMOS33") >>

\* The bus without its entry-level IOStandard.
io_i2c_NoStandard ==
    << GroupEntry("i2c", 0,
         << Subsignal("scl", <<"N17">>, None, {"PULLUP=True"}),
            Subsignal("sda", <<"T16">>, None, {"PULLUP=True"}) >>, None) >>

io_i2c ==
    << GroupEntry("i2c", 0,
         << Subsignal("scl", <<"N17">>, None, {"PULLUP=True"}),
            Subsignal("sda", <<"T16">>, None, {"PULLUP=True"}) >>, "LVCMOS33") >>

io_pmod ==
    << PinEntry("pmod", 0,
         <<"M22", "N22", "H18", "H17", "H22", "J22", "K21", "K22">>, "LVCMOS33") >>

io_gps ==
    << GroupEntry("gps", 0,
         << Subsignal("rst_n", <<"Y16">>, None, {}),
            Subsignal("tx",    <<"P20">>, None, {}),
            Subsignal("rx",    <<"N15">>, None, {}),
            Subsignal("tp",    <<"W14", "Y14">>, None, {}) >>, "LVCMOS33"),
       GroupEntry("gps", 1,
         << Subsignal("rst_n", <<"G15">>, None, {}),
            Subsignal("tx",    <<"M17">>, None, {}),
            Subsignal("rx",    <<"J16">>, None, {}),
            Subsignal("tp",    <<"G17", "G18">>, None, {}) >>, "LVCMOS33") >>

\* One SMA connector: its four sub-signals, each with its own IOStandard.
SmaEntry(i, in, in_en, out, out_en) ==
    GroupEntry("sma", i,
      << Subsignal("in",     <<in>>,     "LVCMOS33", {"PULLDOWN=TRUE"}),
         Subsignal("in_en",  <<in_en>>,  "LVCMOS33", {}),
         Subsignal("out",    <<out>>,    "LVCMOS33", {"DRIVE=16"}),
         Subsignal("out_en", <<out_en>>, "LVCMOS33", {}) >>, None)

\* The fourth connector numbered 3.
io_sma_Renumbered ==
    << SmaEntry(0, "Y11",  "H15", "W11", "J15"),
       SmaEntry(1, "Y12",  "J14", "W12", "H14"),
       SmaEntry(2, "AA21", "K14", "V10", "K13"),
       SmaEntry(3, "AA20", "L13", "W10", "M13") >>

\* The fourth connector's output on the third connector's pin.
io_sma_SharedPin ==
    << SmaEntry(0, "Y11",  "H15", "W11", "J15"),
       SmaEntry(1, "Y12",  "J14", "W12", "H14"),
       SmaEntry(2, "AA21", "K14", "V10", "K13"),
       SmaEntry(2, "AA20", "L13", "V10", "M13") >>

io_sma ==
    << SmaEntry(0, "Y11",  "H15", "W11", "J15"),
       SmaEntry(1, "Y12",  "J14", "W12", "H14"),
       SmaEntry(2, "AA21", "K14", "V10", "K13"),
       SmaEntry(2, "AA20", "L13", "W10", "M13") >>

_io ==
    io_clk_rst \o io_user_led \o io_user_btn \o io_flash \o io_pcie \o
    io_led \o io_i2c \o io_pmod \o io_gps \o io_sma

(***************************************************************************)
(* Values handed across the platform's interface.                          *)
(***************************************************************************)

\* Python's None: the value of a call that ends without a return statement.
PyNone == [type |-> "NoneType"]

\* An argument left out of a call, so that the parameter's default applies.
Omitted == "<omitted>"

\* OpenOCD(config, flash_proxy_basename)
OpenOCD(config, flash_proxy_basename) ==
    [type |-> "OpenOCD", config |-> config,
     flash_proxy_basename |-> flash_proxy_basename]

\* VivadoProgrammer(flash_part=...)
VivadoProgrammer(flash_part) ==
    [type |-> "VivadoProgrammer", flash_part |-> flash_part]

\* A call's outcome: a returned value, or a raised exception.
Return(v) == [outcome |-> "return", value |-> v]
Raise(e)  == [outcome |-> "raise", value |-> [type |-> e]]

(***************************************************************************)
(* Platform class attributes and the command lists of __init__.  A command *)
(* is the sequence of its Tcl words; the quoted -loadbit argument is the   *)
(* sequence of its own words.                                              *)
(***************************************************************************)

default_clk_name == "clk200"

\* 1e9/200e6, in ns (the division is exact)
default_clk_period == 1000000000 \div 200000000

device == "xc7a100t-fgg484-2"

SetProperty(prop, val) == <<"set_property", prop, val, "[current_design]">>

WriteBitstream(file) == <<"write_bitstream", "-force", file>>

WriteCfgmem(bit, file) ==
    <<"write_cfgmem", "-force", "-format", "bin", "-interface", "spix4",
      "-size", "16", "-loadbit", <<"up", "0x0", bit>>, "-file", file>>

BitstreamCommands ==
    << SetProperty("BITSTREAM.CONFIG.SPI_BUSWIDTH", "4"),
       SetProperty("BITSTREAM.CONFIG.CONFIGRATE", "16"),
       SetProperty("BITSTREAM.GENERAL.COMPRESS", "TRUE"),
       SetProperty("CFGBVS", "VCCO"),
       SetProperty("CONFIG_VOLTAGE", "3.3") >>

\* The fallback section's set_property placed with the operational ones.
AdditionalCommandsEarlyNextAddr ==
    << WriteCfgmem("{build_name}.bit", "{build_name}.bin"),
       SetProperty("BITSTREAM.CONFIG.TIMER_CFG", "0x0001fbd0"),
       SetProperty("BITSTREAM.CONFIG.CONFIGFALLBACK", "Enable"),
       SetProperty("BITSTREAM.CONFIG.NEXT_CONFIG_ADDR", "0x00400000"),
       WriteBitstream("{build_name}_operational.bit"),
       WriteCfgmem("{build_name}_operational.bit", "{build_name}_operational.bin"),
       WriteBitstream("{build_name}_fallback.bit"),
       WriteCfgmem("{build_name}_fallback.bit", "{build_name}_fallback.bin") >>

\* The fallback bitstream never regenerated.
AdditionalCommandsNoFallbackBitstream ==
    << WriteCfgmem("{build_name}.bit", "{build_name}.bin"),
       SetProperty("BITSTREAM.CONFIG.TIMER_CFG", "0x0001fbd0"),
       SetProperty("BITSTREAM.CONFIG.CONFIGFALLBACK", "Enable"),
       WriteBitstream("{build_name}_operational.bit"),
       WriteCfgmem("{build_name}_operational.bit", "{build_name}_operational.bin"),
       SetProperty("BITSTREAM.CONFIG.NEXT_CONFIG_ADDR", "0x00400000"),
       WriteCfgmem("{build_name}_fallback.bit", "{build_name}_fallback.bin") >>

AdditionalCommands ==
    << WriteCfgmem("{build_name}.bit", "{build_name}.bin"),
       SetProperty("BITSTREAM.CONFIG.TIMER_CFG", "0x0001fbd0"),
       SetProperty("BITSTREAM.CONFIG.CONFIGFALLBACK", "Enable"),
       WriteBitstream("{build_name}_operational.bit"),
       WriteCfgmem("{build_name}_operational.bit", "{build_name}_operational.bin"),
       SetProperty("BITSTREAM.CONFIG.NEXT_CONFIG_ADDR", "0x00400000"),
       WriteBitstream("{build_name}_fallback.bit"),
       WriteCfgmem("{build_name}_fallback.bit", "{build_name}_fallback.bin") >>

(***************************************************************************)
(* State.                                                                  *)
(***************************************************************************)

VARIABLES
    pc,                  \* "new", "constructed", "finalized", "failed", "built"
    platform,            \* the Platform object's fields, set by __init__
    programmer_calls,    \* create_programmer calls so far: argument and outcome
    requested,           \* resources of _io the design under finalize requested
    finalize_calls,      \* calls made by do_finalize, in order
    period_constraints,  \* constraints handed to add_period_constraint
    build_step,          \* commands the toolchain has executed so far
    properties,          \* design properties set by set_property: <<name, value>>
    files,               \* files written so far
    writes               \* one record per executed write_* command, in order

vars == << pc, platform, programmer_calls, requested, finalize_calls,
           period_constraints, build_step, properties, files, writes >>

build_vars == << build_step, properties, files, writes >>

finalize_vars == << requested, finalize_calls, period_constraints >>

\* Toolchain names passed to Platform(...); Omitted takes the default.
ToolchainArgs == {Omitted, "vivado", "ise", "yosys+nextpnr"}

\* The create_programmer calls followed in one run.
MaxProgrammerCalls == 2

\* Names passed to create_programmer(...); Omitted takes the default.
ProgrammerArgs == {Omitted, "openocd", "vivado", "OpenOCD", "", "bogus"}

\* Resources a design may request before it is finalized.
Requestable == {<<"clk200", 0>>, <<"clk125", 0>>, <<"rst_n", 0>>}

Init ==
    /\ pc = "new"
    /\ platform = PyNone
    /\ programmer_calls = <<>>
    /\ requested = {}
    /\ finalize_calls = <<>>
    /\ period_constraints = <<>>
    /\ build_step = 0
    /\ properties = {}
    /\ files = {}
    /\ writes = <<>>

(***************************************************************************)
(* Platform.__init__(toolchain="vivado")                                   *)
(***************************************************************************)

\* The bitstream commands set only under the default toolchain.
Platform__init__VivadoOnly(toolchain) ==
    [type |-> "Platform", device |-> device, io |-> _io, toolchain |-> toolchain,
     bitstream_commands |->
         IF toolchain = "vivado" THEN BitstreamCommands ELSE <<>>,
     additional_commands |-> AdditionalCommands]

Platform__init__(toolchain) ==
    [type |-> "Platform", device |-> device, io |-> _io, toolchain |-> toolchain,
     bitstream_commands |-> BitstreamCommands,
     additional_commands |-> AdditionalCommands]

Construct ==
    /\ pc = "new"
    /\ \E arg \in ToolchainArgs :
         platform' = Platform__init__(IF arg = Omitted THEN "vivado" ELSE arg)
    /\ pc' = "constructed"
    /\ UNCHANGED << programmer_calls, finalize_vars, build_vars >>

(***************************************************************************)
(* Platform.create_programmer(name='openocd')                              *)
(***************************************************************************)

\* The comparison made on the backend's class name instead of the name.
create_programmer_ByClass(name) ==
    IF name = "OpenOCD"
    THEN Return(OpenOCD("openocd_xc7_ft232.cfg", "bscan_spi_xc7a200t.bit"))
    ELSE IF name = "vivado"
    THEN Return(VivadoProgrammer("s25fl256sxxxxxx0-spi-x1_x2_x4"))
    ELSE Return(PyNone)

create_programmer(name) ==
    IF name = "openocd"
    THEN Return(OpenOCD("openocd_xc7_ft232.cfg", "bscan_spi_xc7a200t.bit"))
    ELSE IF name = "vivado"
    THEN Return(VivadoProgrammer("s25fl256sxxxxxx0-spi-x1_x2_x4"))
    ELSE Return(PyNone)

CreateProgrammer ==
    /\ pc # "new"
    /\ Len(programmer_calls) < MaxProgrammerCalls
    /\ \E arg \in ProgrammerArgs :
         LET name == IF arg = Omitted THEN "openocd" ELSE arg
         IN  programmer_calls' =
                 Append(programmer_calls,
                        [arg |-> arg, name |-> name,
                         result |-> create_programmer(name)])
    /\ UNCHANGED << pc, platform, finalize_vars, build_vars >>

(***************************************************************************)
(* Platform.do_finalize(fragment)                                          *)
(***************************************************************************)

\* The signal object a requested resource resolves to.
Signal(name, index) == [type |-> "Signal", name |-> name, index |-> index]

\* The period written for a 100 MHz clock.
do_finalize_period_100MHz == 1000000000 \div 100000000

\* The literal 1e9/200e6 of do_finalize, in ns (the division is exact)
do_finalize_period == 1000000000 \div 200000000

\* self.lookup_request(name, loose=True): the requested resource of that name.
\* What the base platform does when there is none is not decided by this
\* file: the lookup may raise, or return None.
lookup_request_loose(design, name) ==
    IF \E r \in design : r[1] = name
    THEN { Return(Signal(r[1], r[2])) : r \in {q \in design : q[1] = name} }
    ELSE { Raise("ConstraintError"), Return(PyNone) }

\* self.add_period_constraint(clk, period): the constraint sets it may leave.
\* What the base platform does with a None clock is not decided by this file.
add_period_constraint(constraints, clk, period) ==
    IF clk.type = "Signal"
    THEN { Append(constraints, [clk |-> clk, period |-> period]) }
    ELSE { constraints, Append(constraints, [clk |-> clk, period |-> period]) }

DoFinalize ==
    /\ pc = "constructed"
    /\ \E design \in SUBSET Requestable :
         /\ requested' = design
         /\ \E found \in lookup_request_loose(design, "clk200") :
              IF found.outcome = "raise"
              THEN /\ finalize_calls' = << "Xilinx7SeriesPlatform.do_finalize",
                                           "lookup_request" >>
                   /\ period_constraints' = period_constraints
                   /\ pc' = "failed"
              ELSE /\ finalize_calls' = << "Xilinx7SeriesPlatform.do_finalize",
                                           "lookup_request",
                                           "add_period_constraint" >>
                   /\ period_constraints' \in
                          add_period_constraint(period_constraints, found.value,
                                                do_finalize_period)
                   /\ pc' = "finalized"
    /\ UNCHANGED << platform, programmer_calls, build_vars >>

(***************************************************************************)
(* The toolchain's run over the platform's command lists: the bitstream    *)
(* commands, the primary bitstream, then the additional commands, each     *)
(* list in order, every set_property persisting for the commands after it. *)
(***************************************************************************)

PrimaryBitstream == WriteBitstream("{build_name}.bit")

PropertiesAfter(cmd, props) ==
    IF cmd[1] = "set_property"
    THEN {p \in props : p[1] # cmd[2]} \cup {<<cmd[2], cmd[3]>>}
    ELSE props

FilesAfter(cmd, fs) ==
    IF cmd[1] = "write_bitstream" THEN fs \cup {cmd[3]}
    ELSE IF cmd[1] = "write_cfgmem" THEN fs \cup {cmd[12]}
    ELSE fs

WritesAfter(cmd, ws, props, fs) ==
    IF cmd[1] = "write_bitstream"
    THEN Append(ws, [cmd |-> cmd[1], out |-> cmd[3], loads |-> "",
                     present |-> TRUE, properties |-> props])
    ELSE IF cmd[1] = "write_cfgmem"
    THEN Append(ws, [cmd |-> cmd[1], out |-> cmd[12], loads |-> cmd[10][3],
                     present |-> cmd[10][3] \in fs, properties |-> props])
    ELSE ws

Execute(cmd) ==
    /\ properties' = PropertiesAfter(cmd, properties)
    /\ files' = FilesAfter(cmd, files)
    /\ writes' = WritesAfter(cmd, writes, properties, files)
    /\ build_step' = build_step + 1

NumBitstreamCommands == Len(platform.bitstream_commands)

NumAdditionalCommands == Len(platform.additional_commands)

RunBitstreamCommand ==
    /\ pc = "finalized"
    /\ build_step < NumBitstreamCommands
    /\ Execute(platform.bitstream_commands[build_step + 1])
    /\ UNCHANGED << pc, platform, programmer_calls, finalize_vars >>

WritePrimaryBitstream ==
    /\ pc = "finalized"
    /\ build_step = NumBitstreamCommands
    /\ Execute(PrimaryBitstream)
    /\ UNCHANGED << pc, platform, programmer_calls, finalize_vars >>

RunAdditionalCommand ==
    /\ pc = "finalized"
    /\ build_step > NumBitstreamCommands
    /\ build_step - NumBitstreamCommands <= NumAdditionalCommands
    /\ Execute(platform.additional_commands[build_step - NumBitstreamCommands])
    /\ pc' = IF build_step - NumBitstreamCommands = NumAdditionalCommands
             THEN "built" ELSE pc
    /\ UNCHANGED << platform, programmer_calls, finalize_vars >>

Next ==
    \/ Construct
    \/ CreateProgrammer
    \/ DoFinalize
    \/ RunBitstreamCommand
    \/ WritePrimaryBitstream
    \/ RunAdditionalCommand

Spec == Init /\ [][Next]_vars

(***************************************************************************)
(* Properties.                                                             *)
(***************************************************************************)

Constructed == pc # "new"

ProgrammerNames == {"openocd", "vivado"}

\* C1: create_programmer called with a name outside {"openocd", "vivado"}
\* fails with an UnsupportedProgrammer error and returns no value.
C1_UnknownNameRaises ==
    \A k \in DOMAIN programmer_calls :
        programmer_calls[k].name \notin ProgrammerNames =>
            /\ programmer_calls[k].result.outcome = "raise"
            /\ programmer_calls[k].result.value.type = "UnsupportedProgrammer"

\* What the platform's additional commands do, by position.
IsSet(cmd, prop, val) ==
    cmd = <<"set_property", prop, val, "[current_design]">>

IsFlashImage(cmd, bit, bin) ==
    /\ Len(cmd) = 12
    /\ cmd[1] = "write_cfgmem"
    /\ cmd[9] = "-loadbit" /\ cmd[10] = <<"up", "0x0", bit>>
    /\ cmd[11] = "-file" /\ cmd[12] = bin

IsBitstream(cmd, bit) == cmd = <<"write_bitstream", "-force", bit>>

Produces(cmd, bit, bin) == IsBitstream(cmd, bit) \/ IsFlashImage(cmd, bit, bin)

\* C2 (as stated): after construction the additional commands are exactly 6
\* entries: primary flash image, TIMER_CFG, CONFIGFALLBACK, the operational
\* image, NEXT_CONFIG_ADDR, the fallback image.
C2_SixEntries ==
    Constructed =>
        LET c == platform.additional_commands
        IN  /\ Len(c) = 6
            /\ IsFlashImage(c[1], "{build_name}.bit", "{build_name}.bin")
            /\ IsSet(c[2], "BITSTREAM.CONFIG.TIMER_CFG", "0x0001fbd0")
            /\ IsSet(c[3], "BITSTREAM.CONFIG.CONFIGFALLBACK", "Enable")
            /\ Produces(c[4], "{build_name}_operational.bit",
                                "{build_name}_operational.bin")
            /\ IsSet(c[5], "BITSTREAM.CONFIG.NEXT_CONFIG_ADDR", "0x00400000")
            /\ Produces(c[6], "{build_name}_fallback.bit",
                                "{build_name}_fallback.bin")

\* C2 (amended): after construction the additional commands are exactly 8
\* entries: primary flash image at 0x0, TIMER_CFG 0x0001fbd0, CONFIGFALLBACK
\* Enable, the operational bitstream, the operational flash image,
\* NEXT_CONFIG_ADDR 0x00400000, the fallback bitstream, the fallback flash
\* image.
C2_EightEntries ==
    Constructed =>
        LET c == platform.additional_commands
        IN  /\ Len(c) = 8
            /\ IsFlashImage(c[1], "{build_name}.bit", "{build_name}.bin")
            /\ IsSet(c[2], "BITSTREAM.CONFIG.TIMER_CFG", "0x0001fbd0")
            /\ IsSet(c[3], "BITSTREAM.CONFIG.CONFIGFALLBACK", "Enable")
            /\ IsBitstream(c[4], "{build_name}_operational.bit")
            /\ IsFlashImage(c[5], "{build_name}_operational.bit",
                                  "{build_name}_operational.bin")
            /\ IsSet(c[6], "BITSTREAM.CONFIG.NEXT_CONFIG_ADDR", "0x00400000")
            /\ IsBitstream(c[7], "{build_name}_fallback.bit")
            /\ IsFlashImage(c[8], "{build_name}_fallback.bit",
                                  "{build_name}_fallback.bin")

C2_Witness ==
    /\ Constructed
    /\ Len(platform.additional_commands) = 8
    /\ platform.additional_commands[4][1] = "write_bitstream"

\* C9: after construction with any toolchain name the bitstream commands are
\* exactly SPI_BUSWIDTH 4, CONFIGRATE 16, COMPRESS TRUE, CFGBVS VCCO,
\* CONFIG_VOLTAGE 3.3, in this order, whatever the toolchain name.
C9_BitstreamCommands ==
    Constructed =>
        LET c == platform.bitstream_commands
        IN  /\ Len(c) = 5
            /\ IsSet(c[1], "BITSTREAM.CONFIG.SPI_BUSWIDTH", "4")
            /\ IsSet(c[2], "BITSTREAM.CONFIG.CONFIGRATE", "16")
            /\ IsSet(c[3], "BITSTREAM.GENERAL.COMPRESS", "TRUE")
            /\ IsSet(c[4], "CFGBVS", "VCCO")
            /\ IsSet(c[5], "CONFIG_VOLTAGE", "3.3")

C9_Witness ==
    /\ Constructed
    /\ platform.toolchain \notin {"vivado"}
    /\ Len(platform.bitstream_commands) = 5

\* C6: create_programmer resolves one backend by exact match: "openocd"
\* gives an OpenOCD handle with config "openocd_xc7_ft232.cfg" and proxy
\* bitstream "bscan_spi_xc7a200t.bit", "vivado" gives a VivadoProgrammer with
\* flash part "s25fl256sxxxxxx0-spi-x1_x2_x4", no other name gives either,
\* and an omitted name gives what "openocd" gives.
C6_ProgrammerByName ==
    \A k \in DOMAIN programmer_calls :
        LET c == programmer_calls[k]
            r == c.result
            openocd == [type |-> "OpenOCD", config |-> "openocd_xc7_ft232.cfg",
                        flash_proxy_basename |-> "bscan_spi_xc7a200t.bit"]
            vivado == [type |-> "VivadoProgrammer",
                       flash_part |-> "s25fl256sxxxxxx0-spi-x1_x2_x4"]
        IN  /\ r.outcome = "return"
            /\ (c.name = "openocd") <=> (r.value.type = "OpenOCD")
            /\ (c.name = "vivado") <=> (r.value.type = "VivadoProgrammer")
            /\ r.value.type = "OpenOCD" => r.value = openocd
            /\ r.value.type = "VivadoProgrammer" => r.value = vivado
            /\ c.arg = Omitted => r.value = openocd

C6_Witness ==
    /\ Len(programmer_calls) = 2
    /\ programmer_calls[1].arg = "vivado"
    /\ programmer_calls[1].result.value.type = "VivadoProgrammer"
    /\ programmer_calls[2].arg = Omitted
    /\ programmer_calls[2].result.value.type = "OpenOCD"

\* The design under finalize requested the clk200 resource.
Clk200Requested == \E r \in requested : r[1] = "clk200"

\* C4: do_finalize on a design where clk200 is present runs the base
\* platform's do_finalize first, then appends exactly one period constraint,
\* of 5 ns (the default clock period) on clk200, and leaves the device, the
\* IO table and both command lists as they were.
C4_FinalizeAppendsPeriod ==
    /\ [](pc \in {"finalized", "built"} /\ Clk200Requested =>
            /\ finalize_calls = << "Xilinx7SeriesPlatform.do_finalize",
                                   "lookup_request", "add_period_constraint" >>
            /\ Len(period_constraints) = 1
            /\ period_constraints[1].clk =
                   [type |-> "Signal", name |-> "clk200", index |-> 0]
            /\ period_constraints[1].period = 5
            /\ period_constraints[1].period = default_clk_period)
    /\ [][pc = "constructed" /\ pc' # "constructed" =>
            /\ platform' = platform
            /\ Len(period_constraints') <= Len(period_constraints) + 1]_vars

C4_Witness ==
    /\ pc = "finalized"
    /\ Clk200Requested
    /\ Len(period_constraints) = 1
    /\ build_step = 0

(***************************************************************************)
(* The IO table's pin occurrences: <<entry, sub-signal or 0, position>>.   *)
(***************************************************************************)

Occurrences(io) ==
    UNION { { <<i, 0, k>> : k \in DOMAIN io[i].pins } \cup
            UNION { { <<i, j, k>> : k \in DOMAIN io[i].subsignals[j].pins } :
                    j \in DOMAIN io[i].subsignals } :
            i \in DOMAIN io }

PinAt(io, o) ==
    IF o[2] = 0 THEN io[o[1]].pins[o[3]]
    ELSE io[o[1]].subsignals[o[2]].pins[o[3]]

\* C5: no physical pin of the IO table is bound more than once, across
\* entries, sub-signals and pin lists (both sma 2 entries and the multi-pin
\* groups pmod and gps tp included).
C5_NoDoubleBinding ==
    Constructed =>
        LET occ == Occurrences(platform.io)
        IN  Cardinality({ PinAt(platform.io, o) : o \in occ }) = Cardinality(occ)

C5_Witness ==
    /\ Constructed
    /\ Cardinality(Occurrences(platform.io)) = 63
    /\ \E i \in DOMAIN platform.io : Len(platform.io[i].pins) = 8
    /\ \E i \in DOMAIN platform.io :
         \E j \in DOMAIN platform.io[i].subsignals :
            Len(platform.io[i].subsignals[j].pins) = 2

\* Sub-signal j of entry i has an IOStandard, its own or its entry's.
HasStandard(io, i, j) ==
    io[i].subsignals[j].iostandard # None \/ io[i].iostandard # None

\* C7 (as stated): every pin group of the IO table has an IOStandard, on
\* the sub-signal itself or on the enclosing entry.
C7_EveryGroupHasStandard ==
    Constructed =>
        \A i \in DOMAIN platform.io :
            /\ platform.io[i].pins # <<>> => platform.io[i].iostandard # None
            /\ \A j \in DOMAIN platform.io[i].subsignals :
                   HasStandard(platform.io, i, j)

\* The transceiver sub-signals of pcie_x1.
PcieTransceiver == {"clk_p", "clk_n", "rx_p", "rx_n", "tx_p", "tx_n"}

\* C7 (amended): every pin group of the IO table has an IOStandard, on the
\* sub-signal itself or on the enclosing entry, except the six sub-signals
\* clk_p, clk_n, rx_p, rx_n, tx_p, tx_n of pcie_x1, which have none.
C7_StandardExceptPcie ==
    Constructed =>
        \A i \in DOMAIN platform.io :
            /\ platform.io[i].pins # <<>> => platform.io[i].iostandard # None
            /\ \A j \in DOMAIN platform.io[i].subsignals :
                   HasStandard(platform.io, i, j) <=>
                       ~ /\ platform.io[i].name = "pcie_x1"
                         /\ platform.io[i].subsignals[j].name \in PcieTransceiver

C7_Witness ==
    /\ Constructed
    /\ \E i \in DOMAIN platform.io :
         /\ platform.io[i].name = "pcie_x1"
         /\ Len(platform.io[i].subsignals) = 7
         /\ HasStandard(platform.io, i, 1)
         /\ \A j \in 2..7 : ~HasStandard(platform.io, i, j)
    /\ \E i \in DOMAIN platform.io :
         /\ platform.io[i].name = "i2c"
         /\ platform.io[i].subsignals[1].iostandard = None
         /\ HasStandard(platform.io, i, 1)

\* The entries labelled (n, x).
Labelled(io, n, x) == { i \in DOMAIN io : io[i].name = n /\ io[i].index = x }

\* C8: every (name, index) pair of the IO table labels exactly one entry,
\* except (sma, 2), which labels exactly two; there are four sma entries and
\* none is labelled (sma, 3).
C8_LabelsUniqueExceptSma2 ==
    Constructed =>
        LET io == platform.io
        IN  /\ \A i \in DOMAIN io :
                 Cardinality(Labelled(io, io[i].name, io[i].index)) =
                     IF io[i].name = "sma" /\ io[i].index = 2 THEN 2 ELSE 1
            /\ Cardinality(Labelled(io, "sma", 2)) = 2
            /\ Cardinality({ i \in DOMAIN io : io[i].name = "sma" }) = 4
            /\ Labelled(io, "sma", 3) = {}

C8_Witness ==
    /\ Constructed
    /\ Len(platform.io) = 24
    /\ Labelled(platform.io, "sma", 2) = {23, 24}
    /\ Cardinality(Labelled(platform.io, "user_led", 3)) = 1

(***************************************************************************)
(* The toolchain's run, read from the record of its writes.                *)
(***************************************************************************)

\* The names of the properties set when write k was executed.
SetAt(k) == { p[1] : p \in writes[k].properties }

TimerCfg == "BITSTREAM.CONFIG.TIMER_CFG"

ConfigFallback == "BITSTREAM.CONFIG.CONFIGFALLBACK"

NextConfigAddr == "BITSTREAM.CONFIG.NEXT_CONFIG_ADDR"

\* C10: run in list order with every set_property persisting, the primary
\* flash image is written before TIMER_CFG or CONFIGFALLBACK is set; the
\* operational bitstream after both and before NEXT_CONFIG_ADDR is set; the
\* fallback bitstream after NEXT_CONFIG_ADDR is set, still with TIMER_CFG
\* and CONFIGFALLBACK; and the operational and fallback flash images each
\* only after the bitstream file they load has been written.
C10_MultibootOrder ==
    /\ \A k \in DOMAIN writes :
         LET w == writes[k]
         IN  /\ w.out = "{build_name}.bin" =>
                   TimerCfg \notin SetAt(k) /\ ConfigFallback \notin SetAt(k)
             /\ w.out = "{build_name}_operational.bit" =>
                   /\ TimerCfg \in SetAt(k) /\ ConfigFallback \in SetAt(k)
                   /\ NextConfigAddr \notin SetAt(k)
             /\ w.out = "{build_name}_fallback.bit" =>
                   /\ TimerCfg \in SetAt(k) /\ ConfigFallback \in SetAt(k)
                   /\ NextConfigAddr \in SetAt(k)
             /\ w.out = "{build_name}_operational.bin" =>
                   w.loads = "{build_name}_operational.bit" /\ w.present
             /\ w.out = "{build_name}_fallback.bin" =>
                   w.loads = "{build_name}_fallback.bit" /\ w.present
    /\ pc = "built" =>
         [k \in DOMAIN writes |-> writes[k].out] =
             << "{build_name}.bit", "{build_name}.bin",
                "{build_name}_operational.bit", "{build_name}_operational.bin",
                "{build_name}_fallback.bit", "{build_name}_fallback.bin" >>

C10_Witness ==
    /\ pc = "built"
    /\ Len(writes) = 6
    /\ NextConfigAddr \in { p[1] : p \in properties }

====
